---- MODULE Spec2Model ----
(***************************************************************************)
(* Model of the sv2vhdl resolver plugin (src/lib/sv2vhdl/resolver.c):      *)
(* the hierarchy walk that groups the inout ports of tran-like instances   *)
(* into nets, the classification of the nets, the call to the Python       *)
(* generator and the per-file cache reconciliation of its answer.          *)
(*                                                                         *)
(* C strings are sequences of one-character strings; a NULL char pointer   *)
(* is the value NULLSTR.  calloc() is taken to succeed.                    *)
(***************************************************************************)
EXTENDS Integers, Sequences, FiniteSets, TLC

(* ------------------------------------------------------------------ *)
(* Program constants                                                   *)
(* ------------------------------------------------------------------ *)

MAX_NAME == 512

MAX_TYPE == 128

MAX_ENDPOINTS == 64

(* sizeof(old_line), sizeof(new_line) in start_of_sim *)
LINE_BUF == 256

(* ------------------------------------------------------------------ *)
(* Bounds of the model                                                 *)
(* ------------------------------------------------------------------ *)

(* number of times the start-of-simulation callback runs *)
MaxRuns == 2

(* longest native path handed to the path normaliser *)
MaxPathLen == 3

(* most nets of a registry handed to the topology fingerprint *)
MaxFpNets == 3

(* most endpoints added to one net when the registry is driven alone *)
MaxRegEndpoints == 2

(* tran instances scanned after a net has reached MAX_ENDPOINTS *)
MaxOverflow == 2

(* ------------------------------------------------------------------ *)
(* Characters and C strings                                            *)
(* ------------------------------------------------------------------ *)

NULLSTR == <<"NULL">>

UpperChars ==
  <<"A","B","C","D","E","F","G","H","I","J","K","L","M",
    "N","O","P","Q","R","S","T","U","V","W","X","Y","Z">>

LowerChars ==
  <<"a","b","c","d","e","f","g","h","i","j","k","l","m",
    "n","o","p","q","r","s","t","u","v","w","x","y","z">>

tolower(c) ==
  IF \E i \in 1..26 : UpperChars[i] = c
    THEN LowerChars[CHOOSE i \in 1..26 : UpperChars[i] = c]
    ELSE c

Min(a, b) == IF a < b THEN a ELSE b

(* the first n characters of s (all of s when it is shorter) *)
Take(s, n) == SubSeq(s, 1, Min(n, Len(s)))

(* the characters of s after the first n *)
Drop(s, n) == SubSeq(s, Min(n, Len(s)) + 1, Len(s))

(* the in-place lowercasing loops over inst_lower, port_lower, actual *)
StrLower(s) == [i \in 1..Len(s) |-> tolower(s[i])]

(* index of the first occurrence of c in s, 0 when there is none *)
strchr(s, c) ==
  IF \E i \in 1..Len(s) : s[i] = c
    THEN CHOOSE i \in 1..Len(s) : s[i] = c /\ \A j \in 1..(i-1) : s[j] # c
    ELSE 0

(* a comparison that tells letter cases apart *)
streqi_case_sensitive(a, b) == a = b

RECURSIVE streqi(_, _)
streqi(a, b) ==
  IF a # <<>> /\ b # <<>>
    THEN IF tolower(Head(a)) # tolower(Head(b))
           THEN FALSE
           ELSE streqi(Tail(a), Tail(b))
    ELSE a = <<>> /\ b = <<>>

safe_copy(src, dstsz) ==
  IF src = NULLSTR THEN <<>> ELSE Take(src, dstsz - 1)

(* snprintf(dst, MAX_NAME, "%s.%s", a, b) *)
JoinDot(a, b) == Take(a \o <<".">> \o b, MAX_NAME - 1)

(* snprintf(dst, MAX_NAME, "%s.%s.<tail>", a, b) *)
JoinDot3(a, b, tail) == Take(a \o <<".">> \o b \o <<".">> \o tail, MAX_NAME - 1)

(* ------------------------------------------------------------------ *)
(* vhpi_to_ename                                                       *)
(* ------------------------------------------------------------------ *)

RECURSIVE StripLead(_)
StripLead(s) ==
  IF s # <<>> /\ (Head(s) = ":" \/ Head(s) = "@")
    THEN StripLead(Tail(s))
    ELSE s

EnameChar(c) == IF c = ":" THEN "." ELSE tolower(c)

vhpi_to_ename(vhpi_full, esz) ==
  LET src  == StripLead(vhpi_full)
      body == [i \in 1..Len(src) |-> EnameChar(src[i])]
  IN  IF esz - 1 > 0 THEN Take(<<".">> \o body, esz - 1) ELSE <<>>

(* ------------------------------------------------------------------ *)
(* Net registry: g_nets is the linked list, head first                 *)
(* ------------------------------------------------------------------ *)

(* a net that is born flagged *)
NewNet_flagged(name) ==
  [net_name |-> safe_copy(name, MAX_NAME),
   endpoints |-> <<>>,
   needs_resolution |-> TRUE]

NewNet(name) ==
  [net_name |-> safe_copy(name, MAX_NAME),
   endpoints |-> <<>>,
   needs_resolution |-> FALSE]

(* position in the list of the first net whose name matches, 0 if none *)
FindNet(nets, name) ==
  IF \E i \in 1..Len(nets) : streqi(nets[i].net_name, name)
    THEN CHOOSE i \in 1..Len(nets) :
           /\ streqi(nets[i].net_name, name)
           /\ \A j \in 1..(i-1) : ~streqi(nets[j].net_name, name)
    ELSE 0

(* find_or_create_net without the search of the list *)
find_or_create_net_always_new(nets, name) ==
  [nets |-> <<NewNet(name)>> \o nets, idx |-> 1]

(* the list after the call and the position of the net returned *)
find_or_create_net(nets, name) ==
  IF FindNet(nets, name) # 0
    THEN [nets |-> nets, idx |-> FindNet(nets, name)]
    ELSE [nets |-> <<NewNet(name)>> \o nets, idx |-> 1]

(* net_add_endpoint without the test of the room left *)
net_add_endpoint_unbounded(net, driver_ename, receiver_ename, type_name) ==
  [net |-> [net EXCEPT !.endpoints =
              Append(@, [driver_ename   |-> safe_copy(driver_ename, MAX_NAME),
                         receiver_ename |-> safe_copy(receiver_ename, MAX_NAME),
                         type_name      |-> safe_copy(type_name, MAX_TYPE)])],
   rc |-> 0]

(* the net after the call and the value returned *)
net_add_endpoint(net, driver_ename, receiver_ename, type_name) ==
  IF Len(net.endpoints) >= MAX_ENDPOINTS
    THEN [net |-> net, rc |-> -1]
    ELSE [net |-> [net EXCEPT !.endpoints =
                     Append(@, [driver_ename   |-> safe_copy(driver_ename, MAX_NAME),
                                receiver_ename |-> safe_copy(receiver_ename, MAX_NAME),
                                type_name      |-> safe_copy(type_name, MAX_TYPE)])],
          rc |-> 0]

tran_entities ==
  << <<"S","V","_","T","R","A","N">>,
     <<"S","V","_","T","R","A","N","I","F","0">>,
     <<"S","V","_","T","R","A","N","I","F","1">>,
     <<"S","V","_","R","T","R","A","N">>,
     <<"S","V","_","R","T","R","A","N","I","F","0">>,
     <<"S","V","_","R","T","R","A","N","I","F","1">> >>

is_tran_entity(entity_name) ==
  \E i \in 1..Len(tran_entities) : streqi(entity_name, tran_entities[i])

(* ------------------------------------------------------------------ *)
(* portmap_lookup: "FORMAL1=ACTUAL1;FORMAL2=ACTUAL2;..."               *)
(* ------------------------------------------------------------------ *)

(* a lookup that answers with the formal itself when the map lacks it *)
RECURSIVE PortmapScan_defaults_to_formal(_, _, _)
PortmapScan_defaults_to_formal(p, formal_name, dstsz) ==
  IF p = <<>> \/ strchr(p, "=") = 0
    THEN [found |-> TRUE, actual |-> Take(formal_name, dstsz - 1)]
    ELSE
      LET eq           == strchr(p, "=")
          name_len     == eq - 1
          match        == /\ name_len = Len(formal_name)
                          /\ \A i \in 1..Len(formal_name) :
                               tolower(p[i]) = tolower(formal_name[i])
          actual_start == Drop(p, eq)
          semi         == strchr(actual_start, ";")
          actual_len   == IF semi # 0 THEN semi - 1 ELSE Len(actual_start)
      IN  IF match
            THEN [found |-> TRUE,
                  actual |-> Take(Take(actual_start, actual_len), dstsz - 1)]
            ELSE PortmapScan_defaults_to_formal(
                   IF semi # 0 THEN Drop(actual_start, semi) ELSE <<>>,
                   formal_name, dstsz)

RECURSIVE PortmapScan(_, _, _)
PortmapScan(p, formal_name, dstsz) ==
  IF p = <<>> \/ strchr(p, "=") = 0
    THEN [found |-> FALSE, actual |-> <<>>]
    ELSE
      LET eq           == strchr(p, "=")
          name_len     == eq - 1
          match        == /\ name_len = Len(formal_name)
                          /\ \A i \in 1..Len(formal_name) :
                               tolower(p[i]) = tolower(formal_name[i])
          actual_start == Drop(p, eq)
          semi         == strchr(actual_start, ";")
          actual_len   == IF semi # 0 THEN semi - 1 ELSE Len(actual_start)
      IN  IF match
            THEN [found |-> TRUE,
                  actual |-> Take(Take(actual_start, actual_len), dstsz - 1)]
            ELSE PortmapScan(IF semi # 0 THEN Drop(actual_start, semi) ELSE <<>>,
                             formal_name, dstsz)

portmap_lookup(portmap, formal_name, dstsz) ==
  IF portmap = NULLSTR \/ formal_name = NULLSTR
    THEN [found |-> FALSE, actual |-> <<>>]
    ELSE PortmapScan(portmap, formal_name, dstsz)

(* ------------------------------------------------------------------ *)
(* scan_instances: one instance of the region                         *)
(* ------------------------------------------------------------------ *)

LogMsg(msg, arg) == [msg |-> msg, arg |-> arg]

(* elem_type_buf of get_type_info for a port: type is NULLSTR when the  *)
(* port has no type handle, elem is NULLSTR when the type is a scalar   *)
get_type_info(port) ==
  IF port.type = NULLSTR THEN safe_copy(<<"?">>, MAX_TYPE)
  ELSE IF port.elem # NULLSTR THEN safe_copy(port.elem, MAX_TYPE)
  ELSE safe_copy(port.type, MAX_TYPE)

(* the body of the loop over the ports of one tran instance, from port  *)
(* k on; st is [nets, log]                                              *)
RECURSIVE ScanPorts(_, _, _, _, _)
ScanPorts(st, inst, inst_ename, sig_prefix, k) ==
  IF k > Len(inst.ports) THEN st
  ELSE
    LET port == inst.ports[k]
    IN
    IF port.mode # "inout" \/ port.name = NULLSTR
      THEN ScanPorts(st, inst, inst_ename, sig_prefix, k + 1)
    ELSE
      LET port_etype == IF port.drv_type # NULLSTR
                          THEN safe_copy(port.drv_type, MAX_TYPE)
                          ELSE get_type_info(port)
          port_lower == StrLower(safe_copy(port.name, MAX_NAME))
          lk         == portmap_lookup(inst.portmap, port.name, MAX_NAME)
      IN
      IF ~lk.found
        THEN ScanPorts([st EXCEPT !.log =
                          Append(@, LogMsg("WARNING: port not in port map", port.name))],
                       inst, inst_ename, sig_prefix, k + 1)
      ELSE
        LET actual    == StrLower(lk.actual)
            net_name  == JoinDot(sig_prefix, actual)
            drv_ename == JoinDot3(inst_ename, port_lower,
                                  <<"d","r","i","v","e","r">>)
            rcv_ename == JoinDot3(inst_ename, port_lower,
                                  <<"o","t","h","e","r">>)
            fc        == find_or_create_net(st.nets, net_name)
            ae        == net_add_endpoint(fc.nets[fc.idx], drv_ename, rcv_ename,
                                          port_etype)
            nets2     == [fc.nets EXCEPT ![fc.idx] = ae.net]
            log2      == IF ae.rc = 0 THEN st.log
                         ELSE Append(st.log,
                                     LogMsg("too many endpoints on net",
                                            ae.net.net_name))
        IN  ScanPorts([nets |-> nets2, log |-> log2],
                      inst, inst_ename, sig_prefix, k + 1)

(* one iteration of the loop over the instances of a region *)
ScanOneInstance(st, inst, path_prefix, sig_prefix) ==
  LET inst_lower == StrLower(safe_copy(IF inst.name # NULLSTR THEN inst.name
                                       ELSE <<"?">>, MAX_NAME))
      inst_ename == JoinDot(path_prefix, inst_lower)
  IN
  IF inst.entity = NULLSTR \/ ~is_tran_entity(inst.entity) THEN st
  ELSE IF inst.portmap = NULLSTR
    THEN [st EXCEPT !.log =
            Append(@, LogMsg("WARNING: no port map for tran instance", <<>>))]
  ELSE IF ~inst.has_ports THEN st
  ELSE ScanPorts(st, inst, inst_ename, sig_prefix, 1)

(* ------------------------------------------------------------------ *)
(* analyze_nets                                                        *)
(* ------------------------------------------------------------------ *)

(* analyze_nets with the threshold off by one *)
analyze_nets_one_endpoint(nets) ==
  [i \in 1..Len(nets) |->
     [nets[i] EXCEPT !.needs_resolution = (Len(nets[i].endpoints) >= 1)]]

analyze_nets(nets) ==
  [i \in 1..Len(nets) |->
     [nets[i] EXCEPT !.needs_resolution = (Len(nets[i].endpoints) >= 2)]]

(* the count of Phase 2 taken over every net, flagged or not *)
NetsNeeding_counts_every_net(nets) == Len(nets)

(* the count of Phase 2 and of print_report *)
NetsNeeding(nets) ==
  Cardinality({i \in 1..Len(nets) : nets[i].needs_resolution})

(* ------------------------------------------------------------------ *)
(* Leading lines of the cached file and of the generated text          *)
(* ------------------------------------------------------------------ *)

(* fgets(buf, size, f) on a file holding content: NULLSTR at end of file *)
fgets(content, size) ==
  IF content = <<>> THEN NULLSTR
  ELSE LET window == Take(content, size - 1)
           nl     == strchr(window, "\n")
       IN  IF nl # 0 THEN Take(window, nl) ELSE window

(* old_line with its trailing newline left in place *)
OldLine_keeps_newline(content) == fgets(content, LINE_BUF)

(* old_line after the trailing newline is stripped *)
OldLine(content) ==
  LET old_line == fgets(content, LINE_BUF)
      olen     == Len(old_line)
  IN  IF olen > 0 /\ old_line[olen] = "\n" THEN Take(old_line, olen - 1)
      ELSE old_line

(* new_line taken with the newline that ends it *)
NewLine_keeps_newline(vhdl) ==
  LET nl  == strchr(vhdl, "\n")
      len == IF nl # 0 THEN nl ELSE Len(vhdl)
  IN  Take(vhdl, IF len >= LINE_BUF THEN LINE_BUF - 1 ELSE len)

(* new_line: the text up to its first newline, cut to the buffer *)
NewLine(vhdl) ==
  LET nl  == strchr(vhdl, "\n")
      len == IF nl # 0 THEN nl - 1 ELSE Len(vhdl)
  IN  Take(vhdl, IF len >= LINE_BUF THEN LINE_BUF - 1 ELSE len)

(* ------------------------------------------------------------------ *)
(* Topology fingerprint and digest line of the design notes            *)
(* ------------------------------------------------------------------ *)

Digits == <<"0","1","2","3","4","5","6","7","8","9">>

PosIn(seq, c) == CHOOSE i \in 1..Len(seq) : seq[i] = c

(* the byte value of a character of the names, types and digest lines *)
Ord(c) ==
  IF \E i \in 1..26 : LowerChars[i] = c THEN 96 + PosIn(LowerChars, c)
  ELSE IF \E i \in 1..26 : UpperChars[i] = c THEN 64 + PosIn(UpperChars, c)
  ELSE IF \E i \in 1..10 : Digits[i] = c THEN 47 + PosIn(Digits, c)
  ELSE CASE c = "." -> 46
         [] c = "(" -> 40
         [] c = ")" -> 41
         [] c = ":" -> 58
         [] c = "_" -> 95
         [] c = "-" -> 45
         [] c = "?" -> 63
         [] c = "=" -> 61
         [] c = ";" -> 59
         [] c = "@" -> 64
         [] OTHER   -> 32

HashSeed == 5381

HashMultiplier == 33

(* width in bits kept of the running hash *)
HashBits == 25

(* h * 33 + byte over the bytes of s, left to right; the hash is a     *)
(* natural number, and testing that has each step computed before the  *)
(* next one is begun                                                   *)
RECURSIVE HashFold(_, _)
HashFold(h, s) ==
  IF s = <<>> THEN h
  ELSE LET next == (h * HashMultiplier + Ord(Head(s))) % (2 ^ HashBits)
       IN  IF next >= 0 THEN HashFold(next, Tail(s)) ELSE 0

RECURSIVE Decimal(_)
Decimal(n) ==
  IF n < 10 THEN <<Digits[n + 1]>>
  ELSE Decimal(n \div 10) \o <<Digits[(n % 10) + 1]>>

(* byte-wise lexicographic order on strings *)
RECURSIVE StrLess(_, _)
StrLess(a, b) ==
  IF b = <<>> THEN FALSE
  ELSE IF a = <<>> THEN TRUE
  ELSE IF Ord(Head(a)) # Ord(Head(b)) THEN Ord(Head(a)) < Ord(Head(b))
  ELSE StrLess(Tail(a), Tail(b))

(* name:type-of-first-endpoint:endpoint-count *)
NetEncoding(net) ==
  net.net_name \o <<":">>
    \o (IF net.endpoints = <<>> THEN <<>> ELSE net.endpoints[1].type_name)
    \o <<":">> \o Decimal(Len(net.endpoints))

RECURSIVE FoldSorted(_, _)
FoldSorted(h, todo) ==
  IF todo = {} THEN h
  ELSE LET first == CHOOSE n \in todo :
                      \A m \in todo : m = n \/ ~StrLess(m.net_name, n.net_name)
           next  == HashFold(h, NetEncoding(first))
       IN  IF next >= 0 THEN FoldSorted(next, todo \ {first}) ELSE 0

(* the fold taken over the nets as the list holds them, unsorted *)
RECURSIVE FoldInListOrder(_, _)
FoldInListOrder(h, todo) ==
  IF todo = <<>> THEN h
  ELSE LET next == HashFold(h, NetEncoding(Head(todo)))
       IN  IF next >= 0 THEN FoldInListOrder(next, Tail(todo)) ELSE 0

(* the fingerprint without the sort: nets hashed in discovery order *)
Fingerprint_in_discovery_order(nets) ==
  LET needing == SelectSeq(nets, LAMBDA n : n.needs_resolution)
  IN  IF needing = <<>> THEN 0 ELSE FoldInListOrder(HashSeed, needing)

Fingerprint(nets) ==
  LET needing == {nets[i] : i \in {j \in 1..Len(nets) : nets[j].needs_resolution}}
  IN  IF needing = {} THEN 0 ELSE FoldSorted(HashSeed, needing)

(* the comment line that stores a digest at the top of an artifact *)
DigestLine(fp) == <<"-","-">> \o Decimal(fp)

(* ------------------------------------------------------------------ *)
(* Elaborated designs handed to the plugin by the simulator            *)
(* ------------------------------------------------------------------ *)

STD_ULOGIC == <<"S","T","D","_","U","L","O","G","I","C">>

LOGIC3DS == <<"L","O","G","I","C","3","D","S">>

Port(name, mode, drv_type) ==
  [name |-> name, mode |-> mode, type |-> STD_ULOGIC, elem |-> NULLSTR,
   drv_type |-> drv_type]

Inst(name, entity, portmap, ports) ==
  [name |-> name, entity |-> entity, portmap |-> portmap,
   has_ports |-> ports # <<>>, ports |-> ports]

Signal(name, size) == [name |-> name, size |-> size]

Region(name, kind, signals, insts, subs) ==
  [name |-> name, kind |-> kind, signals |-> signals, insts |-> insts,
   subs |-> subs]

SV_TRAN == tran_entities[1]

PortsAB ==
  << Port(<<"A">>, "inout", NULLSTR), Port(<<"B">>, "inout", LOGIC3DS) >>

PortsA == << Port(<<"A">>, "inout", NULLSTR) >>

SuffixSignals ==
  << Signal(<<"w","_","d","r","i","v","e","r">>, 4), Signal(<<"w","_","o","t","h","e","r","s">>, 4) >>

(* two tran instances of one architecture that share ac(2) *)
DesignMerge ==
  [root_ok |-> TRUE,
   regions |-> <<
     Region(<<"T","O","P">>, "vhpiRootInstK", SuffixSignals,
       << Inst(<<"T","1">>, SV_TRAN, <<"A","=","A","C","(","2",")",";","B","=","A","C","(","3",")">>, PortsAB),
          Inst(<<"T","2">>, <<"s","v","_","t","r","a","n","i","f","1">>, <<"a","=","a","c","(","2",")",";","b","=","A","C","(","4",")">>,
               PortsAB \o << Port(<<"C">>, "in", NULLSTR) >>) >>,
       <<>>) >>]

(* a driver/others signal pair and no instance *)
DesignSuffix ==
  [root_ok |-> TRUE,
   regions |-> <<
     Region(<<"T","O","P">>, "vhpiRootInstK", SuffixSignals, <<>>, <<>>) >>]

(* tran instances under a generate, a block inside it, and a component *)
DesignNested ==
  [root_ok |-> TRUE,
   regions |-> <<
     Region(<<"T","O","P">>, "vhpiRootInstK", <<>>,
       << Inst(<<"T","3">>, SV_TRAN, <<"A","=","A","C","(","2",")">>, PortsA),
          Inst(<<"U","1">>, <<"S","U","B">>, <<"P","=","A","C","(","2",")">>, <<>>) >>,
       <<2, 4>>),
     Region(<<"G","(","1",")">>, "vhpiForGenerateK", <<>>,
       << Inst(<<"T","1">>, SV_TRAN, <<"A","=","A","C","(","2",")",";","B","=","A","C","(","3",")">>, PortsAB) >>,
       <<3>>),
     Region(<<"B","1">>, "vhpiBlockStmtK", <<>>,
       << Inst(<<"T","4">>, SV_TRAN, <<"A","=","A","C","(","3",")">>, PortsA) >>,
       <<>>),
     Region(<<"U","1">>, "vhpiCompInstStmtK", <<>>,
       << Inst(<<"T","2">>, <<"S","V","_","R","T","R","A","N">>, <<"A","=","A","C","(","2",")">>, PortsA) >>,
       <<5>>),
     Region(<<"G","2">>, "vhpiIfGenerateK", <<>>,
       << Inst(<<"T","5">>, SV_TRAN, <<"A","=","A","C","(","2",")">>, PortsA) >>,
       <<>>) >>]

(* nodes without a name, without a port map, with a port the map lacks *)
DesignMalformed ==
  [root_ok |-> TRUE,
   regions |-> <<
     Region(<<"T","O","P">>, "vhpiRootInstK", <<>>,
       << Inst(NULLSTR, SV_TRAN, <<"A","=","S">>, PortsA),
          Inst(<<"T","5">>, SV_TRAN, NULLSTR, PortsA),
          Inst(<<"T","6">>, SV_TRAN, <<"A","=","S">>,
               PortsAB \o << Port(NULLSTR, "inout", NULLSTR) >>),
          Inst(<<"T","7">>, NULLSTR, <<"A","=","S">>, PortsA) >>,
       <<2>>),
     Region(NULLSTR, "vhpiBlockStmtK", <<>>,
       << Inst(<<"T","8">>, SV_TRAN, <<"A","=","S">>, PortsA) >>,
       <<>>) >>]

(* one tran instance: a net of a single endpoint *)
DesignSingle ==
  [root_ok |-> TRUE,
   regions |-> <<
     Region(<<"T","O","P">>, "vhpiRootInstK", <<>>,
       << Inst(<<"T","1">>, SV_TRAN, <<"A","=","S">>, PortsA) >>,
       <<>>) >>]

(* MAX_ENDPOINTS ports of the root on one signal, and under a generate *)
(* extra more tran instances with a port on that signal and a port on  *)
(* another one                                                         *)
DesignWide(extra) ==
  [root_ok |-> TRUE,
   regions |-> <<
     Region(<<"T","O","P">>, "vhpiRootInstK", <<>>,
       [i \in 1..(MAX_ENDPOINTS \div 2) |->
          Inst(<<"T">> \o Decimal(i), SV_TRAN, <<"A","=","S",";","B","=","S">>, PortsAB)],
       <<2>>),
     Region(<<"G">>, "vhpiForGenerateK", <<>>,
       [i \in 1..extra |->
          Inst(<<"X">> \o Decimal(i), SV_TRAN, <<"A","=","S",";","B","=","R">>, PortsAB)],
       <<>>) >>]

(* vhpi_handle(vhpiRootInst, NULL) returns NULL *)
DesignNoRoot == [root_ok |-> FALSE, regions |-> <<>>]

Designs ==
  {DesignMerge, DesignSuffix, DesignNested, DesignMalformed, DesignSingle,
   DesignNoRoot}

(* ------------------------------------------------------------------ *)
(* The generator (Python resolve_net) and the cache directory          *)
(* ------------------------------------------------------------------ *)

ABSENT == <<"ABSENT">>

FileA == <<"a">>

FileB == <<"b">>

FileNames == {FileA, FileB}

Text(header, body) == header \o <<"\n">> \o body \o <<"\n">>

OtherHeader == <<"-","-","h">>

DictEntry(fname, vhdl) == [fname |-> fname, vhdl |-> vhdl]

(* what PyObject_CallObject can come back with; fp is the digest the     *)
(* generator stamps on the first line of an artifact.  A fname or vhdl  *)
(* of NULLSTR is an object that is not a str (PyUnicode_AsUTF8 fails).   *)
GeneratorResults(fp) ==
  LET T1 == Text(DigestLine(fp), <<"x">>)
      T2 == Text(DigestLine(fp), <<"y">>)
      T3 == Text(OtherHeader, <<"x">>)
      T4 == DigestLine(fp)
  IN  { [kind |-> "exception", files |-> <<>>],
        [kind |-> "none",      files |-> <<>>],
        [kind |-> "nondict",   files |-> <<>>],
        [kind |-> "dict", files |-> <<>>],
        [kind |-> "dict", files |-> << DictEntry(FileA, T1) >>],
        [kind |-> "dict", files |-> << DictEntry(FileB, <<>>) >>],
        [kind |-> "dict", files |-> << DictEntry(FileA, T1), DictEntry(FileB, T3) >>],
        [kind |-> "dict", files |-> << DictEntry(FileA, T2), DictEntry(FileB, T4) >>],
        [kind |-> "dict", files |-> << DictEntry(FileA, T3), DictEntry(FileB, NULLSTR) >>],
        [kind |-> "dict", files |-> << DictEntry(NULLSTR, T1), DictEntry(FileB, T1) >>] }

(* how many bytes of the text reach the file when fputs/fclose are cut  *)
(* short: none, the first line without its newline, or all of it        *)
CutPoints(vhdl) == {0, Len(NewLine(vhdl)), Len(vhdl)}

(* ------------------------------------------------------------------ *)
(* State                                                               *)
(* ------------------------------------------------------------------ *)

VARIABLES
  design,            \* the elaborated hierarchy the simulator exposes
  g_python_ok,       \* python_init() succeeded at start-up
  skip_compile,      \* NVC_RCMODE is "none"
  g_nets,            \* the net list, head first
  g_total_instances,
  g_depth,
  g_design_name,
  pc,                \* where start_of_sim is: idle, walk, analyze, count,
                     \* generate, files, done
  run,               \* number of start-of-simulation callbacks begun
  stack,             \* the activations of walk_hierarchy, innermost last
  file_dict,         \* the dict returned by the generator, in iteration order
  pos,               \* entries of file_dict consumed by PyDict_Next
  written, cached, compiled, errors,
  dir_exists,        \* the cache directory exists
  disk,              \* content of each file of the cache directory, or ABSENT
  log,               \* what this run printed with vhpi_printf
  disk_at_start,     \* disk when this run began
  gen_calls,         \* calls of resolve_net made by this run
  gen_request,       \* the net list handed to resolve_net by this run
  validated,         \* files this run spawned the compiler on
  trace,             \* what this run did with each entry of file_dict
  ename_hist,        \* a native path followed by its successive normal forms
  fp_hist,           \* registries fingerprinted so far, each with its digest
  last_find,         \* the latest find_or_create_net call, the names of the
                     \* nets before it, and the position of the net returned
  prev_written,      \* the artifacts the previous run wrote in full
  prev_failed        \* the files the previous run wrote in full and whose
                     \* compilation then failed

envVars  == <<design, g_python_ok, skip_compile>>
globVars == <<g_nets, g_total_instances, g_depth, g_design_name>>
ctlVars  == <<pc, run, stack>>
fileVars == <<file_dict, pos, written, cached, compiled, errors>>
fsVars   == <<dir_exists, disk>>
histVars == <<log, disk_at_start, gen_calls, gen_request, validated, trace>>

auxVars == <<ename_hist, fp_hist, last_find, prev_written, prev_failed>>

vars == <<envVars, globVars, ctlVars, fileVars, fsVars, histVars, auxVars>>

StaleText == Text(OtherHeader, <<"o","l","d">>)

InitialStores ==
  { [dir |-> FALSE, disk |-> [f \in FileNames |-> ABSENT]],
    [dir |-> TRUE,  disk |-> [f \in FileNames |-> IF f = FileA THEN StaleText
                                                  ELSE <<>>]] }

InitRun ==
  /\ design \in Designs
  /\ g_python_ok \in BOOLEAN
  /\ skip_compile \in BOOLEAN
  /\ g_nets = <<>>
  /\ g_total_instances = 0
  /\ g_depth = 0
  /\ g_design_name = <<>>
  /\ pc = "idle"
  /\ run = 0
  /\ stack = <<>>
  /\ file_dict = <<>>
  /\ pos = 0
  /\ written = 0 /\ cached = 0 /\ compiled = 0 /\ errors = 0
  /\ \E st \in InitialStores : dir_exists = st.dir /\ disk = st.disk
  /\ log = <<>>
  /\ disk_at_start = disk
  /\ gen_calls = 0
  /\ gen_request = <<>>
  /\ validated = <<>>
  /\ trace = <<>>

NoFind == [name |-> NULLSTR, idx |-> 0, before |-> <<>>]

Init ==
  /\ InitRun
  /\ ename_hist = <<>> /\ fp_hist = <<>> /\ last_find = NoFind
  /\ prev_written = {}
  /\ prev_failed = {}

(* ------------------------------------------------------------------ *)
(* start_of_sim, Phase 1: the hierarchy walk                           *)
(* ------------------------------------------------------------------ *)

(* a cleanup that leaves the list in place *)
cleanup_nets_keeps_list == g_nets

(* g_nets after cleanup has freed every net of the list *)
cleanup_nets == <<>>

Frame(region, path_prefix, sig_prefix) ==
  [region |-> region, path |-> path_prefix, sig |-> sig_prefix, i |-> 0, j |-> 0]

Top == stack[Len(stack)]

TopRegion == design.regions[Top.region]

(* a signal scope that follows the structural path at every level *)
SubSigPrefix_follows_structure(kind, sub_path, sig_prefix) == sub_path

(* sub_sig_prefix of walk_hierarchy *)
SubSigPrefix(kind, sub_path, sig_prefix) ==
  IF kind = "vhpiCompInstStmtK" \/ kind = "vhpiRootInstK"
    THEN sub_path
    ELSE sig_prefix

(* a root failure that is not reported *)
RootFailureLog_silent == <<>>

(* what start_of_sim prints when vhpi_handle(vhpiRootInst) fails *)
RootFailureLog == << LogMsg("ERROR - cannot get root instance", <<>>) >>

(* start_of_sim up to the first call of walk_hierarchy *)
StartOfSim ==
  /\ pc \in {"idle", "done"}
  /\ run < MaxRuns
  /\ run' = run + 1
  /\ disk_at_start' = disk
  /\ gen_calls' = 0
  /\ gen_request' = <<>>
  /\ validated' = <<>>
  /\ trace' = <<>>
  /\ file_dict' = <<>>
  /\ pos' = 0
  /\ written' = 0 /\ cached' = 0 /\ compiled' = 0 /\ errors' = 0
  /\ IF ~design.root_ok
       THEN /\ log' = RootFailureLog
            /\ pc' = "done"
            /\ UNCHANGED <<globVars, stack>>
       ELSE LET root_name == design.regions[1].name
                name      == StrLower(IF root_name # NULLSTR
                                        THEN safe_copy(root_name, MAX_NAME)
                                        ELSE g_design_name)
                root_ename == Take(<<".">> \o name, MAX_NAME - 1)
            IN  /\ g_design_name' = name
                /\ g_depth' = 0
                /\ stack' = << Frame(1, root_ename, root_ename) >>
                /\ log' = <<>>
                /\ pc' = "walk"
                /\ UNCHANGED <<g_nets, g_total_instances>>
  /\ prev_written' = {DictEntry(trace[k].fname, trace[k].vhdl) :
                         k \in {m \in 1..Len(trace) :
                                  /\ trace[m].outcome = "written"
                                  /\ trace[m].stored = trace[m].vhdl}}
  /\ prev_failed' = {trace[k].fname :
                        k \in {m \in 1..Len(trace) :
                                 /\ trace[m].compile = "failed"
                                 /\ trace[m].stored = trace[m].vhdl}}
  /\ UNCHANGED <<envVars, fsVars, ename_hist, fp_hist, last_find>>

(* one iteration of the instance loop of scan_instances *)
ScanInstance ==
  /\ pc = "walk"
  /\ Top.i < Len(TopRegion.insts)
  /\ LET inst == TopRegion.insts[Top.i + 1]
         st   == ScanOneInstance([nets |-> g_nets, log |-> log], inst,
                                 Top.path, Top.sig)
     IN  /\ g_nets' = st.nets
         /\ log' = st.log
         /\ g_total_instances' = g_total_instances + 1
         /\ stack' = [stack EXCEPT ![Len(stack)].i = @ + 1]
  /\ UNCHANGED <<envVars, g_depth, g_design_name, pc, run, fileVars, fsVars,
                 disk_at_start, gen_calls, gen_request, validated, trace,
                 auxVars>>

(* one iteration of the sub-region loop of walk_hierarchy, up to the   *)
(* recursive call                                                      *)
EnterRegion ==
  /\ pc = "walk"
  /\ Top.i = Len(TopRegion.insts)
  /\ Top.j < Len(TopRegion.subs)
  /\ LET sub       == design.regions[TopRegion.subs[Top.j + 1]]
         sub_lower == StrLower(safe_copy(IF sub.name # NULLSTR THEN sub.name
                                         ELSE <<"?">>, MAX_NAME))
         sub_path  == JoinDot(Top.path, sub_lower)
         sub_sig   == SubSigPrefix(sub.kind, sub_path, Top.sig)
     IN  stack' = Append([stack EXCEPT ![Len(stack)].j = @ + 1],
                         Frame(TopRegion.subs[Top.j + 1], sub_path, sub_sig))
  /\ g_depth' = g_depth + 1
  /\ UNCHANGED <<envVars, g_nets, g_total_instances, g_design_name, pc, run,
                 fileVars, fsVars, histVars, auxVars>>

(* walk_hierarchy returns: to its caller's loop, or to start_of_sim *)
LeaveRegion ==
  /\ pc = "walk"
  /\ Top.i = Len(TopRegion.insts)
  /\ Top.j = Len(TopRegion.subs)
  /\ stack' = SubSeq(stack, 1, Len(stack) - 1)
  /\ IF Len(stack) > 1
       THEN g_depth' = g_depth - 1 /\ pc' = pc
       ELSE g_depth' = g_depth /\ pc' = "analyze"
  /\ UNCHANGED <<envVars, g_nets, g_total_instances, g_design_name, run,
                 fileVars, fsVars, histVars, auxVars>>

(* ------------------------------------------------------------------ *)
(* analyze_nets, print_report and Phase 2                              *)
(* ------------------------------------------------------------------ *)

(* the lines print_report prints: one per net needing resolution, in   *)
(* list order, then the summary                                        *)
print_report(nets, total_instances) ==
  LET needing == SelectSeq(nets, LAMBDA n : n.needs_resolution)
  IN  [i \in 1..Len(needing) |-> LogMsg("--- Net", needing[i].net_name)]
      \o << LogMsg("Total instances scanned", Decimal(total_instances)),
            LogMsg("Total nets discovered", Decimal(Len(nets))),
            LogMsg("Nets requiring resolution", Decimal(Len(needing))) >>

AnalyzeNets ==
  /\ pc = "analyze"
  /\ g_nets' = analyze_nets(g_nets)
  /\ log' = log \o print_report(g_nets', g_total_instances)
  /\ pc' = "count"
  /\ UNCHANGED <<envVars, g_total_instances, g_depth, g_design_name, run, stack,
                 fileVars, fsVars, disk_at_start, gen_calls, gen_request,
                 validated, trace, auxVars>>

(* Phase 2: leave when no net needs resolution *)
CountNets ==
  /\ pc = "count"
  /\ IF NetsNeeding(g_nets) = 0
       THEN /\ log' = Append(log, LogMsg("no nets need resolution, nothing to generate", <<>>))
            /\ g_nets' = cleanup_nets
            /\ g_total_instances' = 0
            /\ pc' = "done"
       ELSE /\ pc' = "generate"
            /\ UNCHANGED <<g_nets, g_total_instances, log>>
  /\ UNCHANGED <<envVars, g_depth, g_design_name, run, stack, fileVars, fsVars,
                 disk_at_start, gen_calls, gen_request, validated, trace,
                 auxVars>>

(* ------------------------------------------------------------------ *)
(* Phase 3: call_python_resolver and what start_of_sim does with NULL  *)
(* ------------------------------------------------------------------ *)

(* the list of dicts build_net_dict makes, in list order *)
NetList(nets) == SelectSeq(nets, LAMBDA n : n.needs_resolution)

(* what call_python_resolver returns and prints once resolve_net has   *)
(* come back with r: null says that NULL is returned                   *)
ResolverReturn(r, nets) ==
  [null      |-> r.kind # "dict",
   file_dict |-> IF r.kind = "dict" THEN r.files ELSE <<>>,
   called    |-> TRUE,
   lines     |->
     << LogMsg("calling resolve_net", Decimal(Len(NetList(nets)))) >>
     \o (CASE r.kind = "exception" ->
                << LogMsg("ERROR - Python exception in resolve_net", <<>>) >>
           [] r.kind = "none" ->
                << LogMsg("Python returned None (no resolver generated)", <<>>) >>
           [] r.kind = "nondict" ->
                << LogMsg("WARNING - expected dict from Python", <<>>) >>
           [] OTHER -> <<>>)]

ResolverSkipped(line) ==
  [null |-> TRUE, file_dict |-> <<>>, called |-> FALSE,
   lines |-> << LogMsg(line, <<>>) >>]

(* call_python_resolver with a whole-design cache in front of it: no   *)
(* call when a file of the store begins with the digest of the nets    *)
call_python_resolver_digest_cache(python_ok, nets) ==
  IF ~python_ok
    THEN { ResolverSkipped("Python not available, skipping resolver calls") }
  ELSE IF \/ Len(NetList(nets)) = 0
          \/ \E f \in FileNames :
               /\ disk[f] # ABSENT
               /\ OldLine(disk[f]) = DigestLine(Fingerprint(nets))
    THEN { ResolverSkipped("no nets need resolution") }
  ELSE { ResolverReturn(r, nets) : r \in GeneratorResults(Fingerprint(nets)) }

(* every way call_python_resolver can return *)
call_python_resolver(python_ok, nets) ==
  IF ~python_ok
    THEN { ResolverSkipped("Python not available, skipping resolver calls") }
  ELSE IF Len(NetList(nets)) = 0
    THEN { ResolverSkipped("no nets need resolution") }
  ELSE { ResolverReturn(r, nets) : r \in GeneratorResults(Fingerprint(nets)) }

(* the UNRESOLVED lines start_of_sim prints when no dict came back *)
UnresolvedLines(nets) ==
  LET needing == NetList(nets)
  IN  [i \in 1..Len(needing) |-> LogMsg("UNRESOLVED net", needing[i].net_name)]

(* Phase 3, and the set-up of Phase 4 when a dict came back *)
CallResolver ==
  /\ pc = "generate"
  /\ \E res \in call_python_resolver(g_python_ok, g_nets) :
       /\ gen_calls' = IF res.called THEN gen_calls + 1 ELSE gen_calls
       /\ gen_request' = IF res.called THEN NetList(g_nets) ELSE gen_request
       /\ IF res.null
            THEN /\ log' = log \o res.lines
                          \o << LogMsg("ERROR - no VHDL generated", <<>>) >>
                          \o UnresolvedLines(g_nets)
                 /\ g_nets' = cleanup_nets
                 /\ g_total_instances' = 0
                 /\ pc' = "done"
                 /\ UNCHANGED <<file_dict, dir_exists>>
            ELSE /\ log' = log \o res.lines
                          \o << LogMsg("received VHDL file(s)",
                                       Decimal(Len(res.file_dict))) >>
                 /\ file_dict' = res.file_dict
                 \* mkdir(resolver_dir, 0755), its result ignored
                 /\ dir_exists' \in (IF dir_exists THEN {TRUE} ELSE BOOLEAN)
                 /\ pc' = "files"
                 /\ UNCHANGED <<g_nets, g_total_instances>>
  /\ pos' = 0
  /\ written' = 0 /\ cached' = 0 /\ compiled' = 0 /\ errors' = 0
  /\ UNCHANGED <<envVars, g_depth, g_design_name, run, stack, disk,
                 disk_at_start, validated, trace, auxVars>>

(* ------------------------------------------------------------------ *)
(* Phase 4: one iteration of the loop over file_dict                   *)
(* ------------------------------------------------------------------ *)

(* the per-file cache test, given that fopen(cache_path, "r") worked *)
FirstLineMatches(old, vhdl) ==
  /\ fgets(old, LINE_BUF) # NULLSTR
  /\ OldLine(old) = NewLine(vhdl)

(* what was done with one entry: readable and writable are the answers *)
(* of fopen(cache_path, "r") and fopen(cache_path, "w"), stored is what *)
(* fputs and fclose left in the file (ABSENT when it was not opened)    *)
TraceEntry(e, readable, writable, stored, outcome, compile) ==
  [fname |-> e.fname, vhdl |-> e.vhdl, readable |-> readable,
   writable |-> writable, stored |-> stored, outcome |-> outcome,
   compile |-> compile]

(* a compile step whose failures are not counted *)
CompileErrors_ignores_failure(comp) == 0

(* the errors the compile step adds: only this to a failed validation *)
CompileErrors(comp) == IF comp = "ok" THEN 0 ELSE 1

(* a compile step taken whatever the mode *)
CompileWanted_whatever_mode(skip) == TRUE

(* the test that guards the compile step: not in rcmode=none *)
CompileWanted(skip) == ~skip

ProcessFile ==
  /\ pc = "files"
  /\ pos < Len(file_dict)
  /\ pos' = pos + 1
  /\ LET e == file_dict[pos + 1]
     IN
     IF e.fname = NULLSTR \/ e.vhdl = NULLSTR
       THEN /\ trace' = Append(trace, TraceEntry(e, FALSE, FALSE, ABSENT, "skipped", "none"))
            /\ UNCHANGED <<written, cached, compiled, errors, disk, log, validated>>
       ELSE
         LET old == disk[e.fname]
         IN
         \E readable \in (IF old # ABSENT THEN BOOLEAN ELSE {FALSE}) :
           IF readable /\ FirstLineMatches(old, e.vhdl)
             THEN /\ cached' = cached + 1
                  /\ trace' = Append(trace, TraceEntry(e, TRUE, FALSE, ABSENT, "cached", "none"))
                  /\ UNCHANGED <<written, compiled, errors, disk, log, validated>>
             ELSE
               \E writable \in (IF dir_exists THEN BOOLEAN ELSE {FALSE}) :
                 IF ~writable
                   THEN /\ errors' = errors + 1
                        /\ log' = Append(log, LogMsg("ERROR - cannot write", e.fname))
                        /\ trace' = Append(trace, TraceEntry(e, readable, FALSE, ABSENT, "error", "none"))
                        /\ UNCHANGED <<written, cached, compiled, disk, validated>>
                   ELSE
                     \E cut \in CutPoints(e.vhdl) :
                       /\ disk' = [disk EXCEPT ![e.fname] = Take(e.vhdl, cut)]
                       /\ written' = written + 1
                       /\ cached' = cached
                       /\ IF ~CompileWanted(skip_compile)
                            THEN /\ trace' = Append(trace,
                                       TraceEntry(e, readable, TRUE, Take(e.vhdl, cut),
                                                  "written", "none"))
                                 /\ UNCHANGED <<compiled, errors, log, validated>>
                            ELSE
                              \E comp \in {"nospawn", "failed", "ok"} :
                                /\ trace' = Append(trace,
                                       TraceEntry(e, readable, TRUE, Take(e.vhdl, cut),
                                                  "written", comp))
                                /\ validated' = IF comp = "nospawn" THEN validated
                                                ELSE Append(validated, e.fname)
                                /\ compiled' = IF comp = "ok" THEN compiled + 1
                                               ELSE compiled
                                /\ errors' = errors + CompileErrors(comp)
                                /\ log' = CASE comp = "nospawn" ->
                                                 Append(log, LogMsg("ERROR - cannot spawn nvc", e.fname))
                                            [] comp = "failed" ->
                                                 Append(log, LogMsg("ERROR - compilation failed", e.fname))
                                            [] OTHER -> log
  /\ UNCHANGED <<envVars, globVars, pc, run, stack, file_dict, dir_exists,
                 disk_at_start, gen_calls, gen_request, auxVars>>

(* the end of start_of_sim after the loop *)
FinishRun ==
  /\ pc = "files"
  /\ pos = Len(file_dict)
  /\ log' = Append(log, LogMsg(IF skip_compile THEN "--rcmode=none: wrote, cached, error(s)"
                               ELSE "wrote, cached, compiled, errors",
                               Decimal(written) \o <<",">> \o Decimal(cached)
                                 \o <<",">> \o Decimal(compiled)
                                 \o <<",">> \o Decimal(errors)))
  /\ g_nets' = cleanup_nets
  /\ g_total_instances' = 0
  /\ pc' = "done"
  /\ UNCHANGED <<envVars, g_depth, g_design_name, run, stack, fileVars, fsVars,
                 disk_at_start, gen_calls, gen_request, validated, trace,
                 auxVars>>

Next == StartOfSim \/ ScanInstance \/ EnterRegion \/ LeaveRegion
          \/ AnalyzeNets \/ CountNets \/ CallResolver \/ ProcessFile
          \/ FinishRun

Spec == Init /\ [][Next]_vars

(* ------------------------------------------------------------------ *)
(* The path normaliser on its own: vhpi_to_ename applied to a native   *)
(* path and then to its own results                                    *)
(* ------------------------------------------------------------------ *)

PathChars == {":", "@", ".", "T", "s"}

NativePaths == UNION { [1..k -> PathChars] : k \in 0..MaxPathLen }

InitNorm ==
  /\ design = DesignNoRoot
  /\ g_python_ok = FALSE
  /\ skip_compile = TRUE
  /\ g_nets = <<>>
  /\ g_total_instances = 0
  /\ g_depth = 0
  /\ g_design_name = <<>>
  /\ pc = "off"
  /\ run = 0
  /\ stack = <<>>
  /\ file_dict = <<>>
  /\ pos = 0
  /\ written = 0 /\ cached = 0 /\ compiled = 0 /\ errors = 0
  /\ dir_exists = FALSE
  /\ disk = [f \in FileNames |-> ABSENT]
  /\ log = <<>>
  /\ disk_at_start = disk
  /\ gen_calls = 0
  /\ gen_request = <<>>
  /\ validated = <<>>
  /\ trace = <<>>
  /\ \E p \in NativePaths : ename_hist = <<p>>
  /\ fp_hist = <<>>
  /\ last_find = NoFind
  /\ prev_written = {}
  /\ prev_failed = {}

(* vhpi_to_ename(full, ename, sizeof(ename)) on the latest path *)
Normalize ==
  /\ Len(ename_hist) \in 1..2
  /\ ename_hist' = Append(ename_hist,
                          vhpi_to_ename(ename_hist[Len(ename_hist)], MAX_NAME))
  /\ UNCHANGED <<envVars, globVars, ctlVars, fileVars, fsVars, histVars,
                 fp_hist, last_find, prev_written,
                 prev_failed>>

NextNorm == Normalize

SpecNorm == InitNorm /\ [][NextNorm]_vars

(* ------------------------------------------------------------------ *)
(* The topology fingerprint on its own: registries as the walk and     *)
(* analyze_nets leave them, fingerprinted, rediscovered in another      *)
(* order or with other nets, and fingerprinted again                    *)
(* ------------------------------------------------------------------ *)

(* the plugin is not running; only the registry is looked at *)
PluginOff ==
  /\ design = DesignNoRoot
  /\ g_python_ok = FALSE
  /\ skip_compile = TRUE
  /\ g_total_instances = 0
  /\ g_depth = 0
  /\ g_design_name = <<>>
  /\ pc = "off"
  /\ run = 0
  /\ stack = <<>>
  /\ file_dict = <<>>
  /\ pos = 0
  /\ written = 0 /\ cached = 0 /\ compiled = 0 /\ errors = 0
  /\ dir_exists = FALSE
  /\ disk = [f \in FileNames |-> ABSENT]
  /\ log = <<>>
  /\ disk_at_start = disk
  /\ gen_calls = 0
  /\ gen_request = <<>>
  /\ validated = <<>>
  /\ trace = <<>>

FpNames ==
  << <<".","t",".","a">>, <<".","t",".","a","b">>, <<".","t",".","b">>,
     <<".","u",".","a">> >>

(* the number of endpoints the walk found for each net of the pool *)
FpEndpoints == <<2, 2, 1, 2>>

(* net k of the pool with n endpoints, built as scan_instances builds it *)
RECURSIVE FpNet(_, _)
FpNet(k, n) ==
  IF n = 0 THEN NewNet(FpNames[k])
  ELSE net_add_endpoint(FpNet(k, n - 1),
                        JoinDot3(FpNames[k], Decimal(n), <<"d","r","i","v","e","r">>),
                        JoinDot3(FpNames[k], Decimal(n), <<"o","t","h","e","r">>),
                        IF k = 2 THEN LOGIC3DS ELSE STD_ULOGIC).net

(* the registries of up to MaxFpNets nets of the pool, in every list   *)
(* order, after analyze_nets                                           *)
FpRegistries ==
  { analyze_nets([i \in 1..Len(pick) |-> FpNet(pick[i], FpEndpoints[pick[i]])]) :
      pick \in { q \in UNION { [1..k -> 1..Min(MaxFpNets, Len(FpNames))] :
                                 k \in 0..Min(MaxFpNets, Len(FpNames)) } :
                   \A i \in 1..Len(q), j \in 1..Len(q) :
                     i # j => q[i] # q[j] } }

InitFp ==
  /\ PluginOff
  /\ g_nets \in FpRegistries
  /\ ename_hist = <<>>
  /\ fp_hist = <<>>
  /\ last_find = NoFind
  /\ prev_written = {}
  /\ prev_failed = {}

(* the fingerprint of the registry is taken *)
ComputeFingerprint ==
  /\ Len(fp_hist) < 2
  /\ fp_hist' = Append(fp_hist, [nets |-> g_nets, fp |-> Fingerprint(g_nets)])
  /\ UNCHANGED <<envVars, globVars, ctlVars, fileVars, fsVars, histVars,
                 ename_hist, last_find, prev_written,
                 prev_failed>>

(* another walk leaves another registry: other nets or another order *)
Rediscover ==
  /\ Len(fp_hist) = 1
  /\ g_nets = fp_hist[1].nets
  /\ g_nets' \in FpRegistries \ {g_nets}
  /\ UNCHANGED <<envVars, g_total_instances, g_depth, g_design_name, ctlVars,
                 fileVars, fsVars, histVars, auxVars>>

NextFp == ComputeFingerprint \/ Rediscover

SpecFp == InitFp /\ [][NextFp]_vars

(* ------------------------------------------------------------------ *)
(* The net registry on its own: find_or_create_net and                 *)
(* net_add_endpoint called with names in any letter case               *)
(* ------------------------------------------------------------------ *)

RegNames ==
  { <<".","t",".","a">>, <<".","T",".","A">>, <<".","t",".","b">>,
    <<".","t",".","a","b">> }

InitReg ==
  /\ PluginOff
  /\ g_nets = <<>>
  /\ ename_hist = <<>>
  /\ fp_hist = <<>>
  /\ last_find = NoFind
  /\ prev_written = {}
  /\ prev_failed = {}

(* net_info_t *net = find_or_create_net(net_name) *)
FindOrCreate ==
  /\ \E name \in RegNames :
       LET fc == find_or_create_net(g_nets, name)
       IN  /\ g_nets' = fc.nets
           /\ last_find' = [name |-> name, idx |-> fc.idx,
                           before |-> [i \in 1..Len(g_nets) |-> g_nets[i].net_name]]
  /\ UNCHANGED <<envVars, g_total_instances, g_depth, g_design_name, ctlVars,
                 fileVars, fsVars, histVars, ename_hist, fp_hist, prev_written,
                 prev_failed>>

(* net_add_endpoint(net, ...) on the net the latest call returned *)
AddEndpoint ==
  /\ last_find.idx # 0
  /\ Len(g_nets[last_find.idx].endpoints) < MaxRegEndpoints
  /\ LET net == g_nets[last_find.idx]
         n   == Decimal(Len(net.endpoints) + 1)
         ae  == net_add_endpoint(net,
                                 JoinDot3(last_find.name, n, <<"d","r","i","v","e","r">>),
                                 JoinDot3(last_find.name, n, <<"o","t","h","e","r">>),
                                 STD_ULOGIC)
     IN  g_nets' = [g_nets EXCEPT ![last_find.idx] = ae.net]
  /\ UNCHANGED <<envVars, g_total_instances, g_depth, g_design_name, ctlVars,
                 fileVars, fsVars, histVars, auxVars>>

NextReg == FindOrCreate \/ AddEndpoint

SpecReg == InitReg /\ [][NextReg]_vars

(* ------------------------------------------------------------------ *)
(* The walk on its own, over designs with more ports on one signal     *)
(* than a net has room for                                             *)
(* ------------------------------------------------------------------ *)

WideDesigns == {DesignWide(extra) : extra \in 0..MaxOverflow}

InitWide ==
  /\ design \in WideDesigns
  /\ g_python_ok \in BOOLEAN
  /\ skip_compile \in BOOLEAN
  /\ g_nets = <<>>
  /\ g_total_instances = 0
  /\ g_depth = 0
  /\ g_design_name = <<>>
  /\ pc = "idle"
  /\ run = 0
  /\ stack = <<>>
  /\ file_dict = <<>>
  /\ pos = 0
  /\ written = 0 /\ cached = 0 /\ compiled = 0 /\ errors = 0
  /\ \E st \in InitialStores : dir_exists = st.dir /\ disk = st.disk
  /\ log = <<>>
  /\ disk_at_start = disk
  /\ gen_calls = 0
  /\ gen_request = <<>>
  /\ validated = <<>>
  /\ trace = <<>>
  /\ ename_hist = <<>> /\ fp_hist = <<>> /\ last_find = NoFind
  /\ prev_written = {}
  /\ prev_failed = {}

(* start_of_sim from its entry to the return of analyze_nets *)
NextWide == StartOfSim \/ ScanInstance \/ EnterRegion \/ LeaveRegion
              \/ AnalyzeNets

SpecWide == InitWide /\ [][NextWide]_vars

(* ------------------------------------------------------------------ *)
(* Properties                                                          *)
(* ------------------------------------------------------------------ *)

(* analyze_nets has run and the registry has not been freed yet *)
Classified == pc \in {"count", "generate", "files"}

Logged(msg) == \E i \in 1..Len(log) : log[i].msg = msg

(* What the hierarchy says, read off the design without walking it: the *)
(* parent of a region, its structural path, its signal scope, and the   *)
(* inout ports of tran instances that the port maps connect.            *)
RegionIds == 1..Len(design.regions)

ParentOf(r) ==
  CHOOSE q \in RegionIds :
    \E k \in 1..Len(design.regions[q].subs) : design.regions[q].subs[k] = r

NameOrQuestion(name) == StrLower(IF name = NULLSTR THEN <<"?">> ELSE name)

RECURSIVE StructPathOf(_)
StructPathOf(r) ==
  IF r = 1 THEN <<".">> \o NameOrQuestion(design.regions[1].name)
  ELSE StructPathOf(ParentOf(r)) \o <<".">> \o NameOrQuestion(design.regions[r].name)

RECURSIVE SignalScopeOf(_)
SignalScopeOf(r) ==
  IF r = 1 \/ design.regions[r].kind = "vhpiCompInstStmtK"
    THEN StructPathOf(r)
    ELSE SignalScopeOf(ParentOf(r))

(* <<region, instance, port>> of every connected inout port of a tran *)
Connections ==
  { c \in UNION { UNION { { <<r, i, k>> :
                             k \in 1..Len(design.regions[r].insts[i].ports) } :
                          i \in 1..Len(design.regions[r].insts) } :
                  r \in RegionIds } :
      LET inst == design.regions[c[1]].insts[c[2]]
          port == inst.ports[c[3]]
      IN  /\ inst.entity # NULLSTR
          /\ is_tran_entity(inst.entity)
          /\ inst.portmap # NULLSTR
          /\ port.mode = "inout"
          /\ port.name # NULLSTR
          /\ portmap_lookup(inst.portmap, port.name, MAX_NAME).found }

ConnPort(c) == design.regions[c[1]].insts[c[2]].ports[c[3]]

ConnActual(c) ==
  StrLower(portmap_lookup(design.regions[c[1]].insts[c[2]].portmap,
                          ConnPort(c).name, MAX_NAME).actual)

ConnNetName(c) == SignalScopeOf(c[1]) \o <<".">> \o ConnActual(c)

ConnDriver(c) ==
  StructPathOf(c[1]) \o <<".">>
    \o NameOrQuestion(design.regions[c[1]].insts[c[2]].name)
    \o <<".">> \o StrLower(ConnPort(c).name) \o <<".","d","r","i","v","e","r">>

NetsNamed(name) == {i \in 1..Len(g_nets) : g_nets[i].net_name = name}

(* C2: port-map grouping merge.  When the walk has returned (and       *)
(* before anything else touches the registry), all the tran ports      *)
(* that the port maps connect to one actual of one signal scope are     *)
(* endpoints of a single net named <signal scope>.<actual>; so two     *)
(* instances that both map formal a to ac(2) in one scope give exactly  *)
(* one net <scope>.ac(2) with exactly two endpoints, one per instance,  *)
(* and never two nets.                                                 *)
C2_PortMapGroupingMerge ==
  pc = "analyze" =>
    \A c \in Connections :
      LET same == {d \in Connections : ConnNetName(d) = ConnNetName(c)}
      IN  /\ Cardinality(NetsNamed(ConnNetName(c))) = 1
          /\ \A i \in NetsNamed(ConnNetName(c)) :
               /\ Len(g_nets[i].endpoints) = Cardinality(same)
               /\ {g_nets[i].endpoints[k].driver_ename :
                     k \in 1..Len(g_nets[i].endpoints)}
                  = {ConnDriver(d) : d \in same}

(* two instances of the root both map formal a to ac(2): one net of    *)
(* two endpoints                                                       *)
C2_Witness ==
  /\ pc = "analyze"
  /\ \E c \in Connections, d \in Connections :
       /\ c[1] = d[1] /\ c[2] # d[2]
       /\ StrLower(ConnPort(c).name) = <<"a">>
       /\ StrLower(ConnPort(d).name) = <<"a">>
       /\ ConnActual(c) = <<"a","c","(","2",")">>
       /\ ConnActual(d) = <<"a","c","(","2",")">>
       /\ {e \in Connections : ConnNetName(e) = ConnNetName(c)} = {c, d}
       /\ \E i \in 1..Len(g_nets) :
            /\ g_nets[i].net_name = SignalScopeOf(c[1]) \o <<".","a","c","(","2",")">>
            /\ Len(g_nets[i].endpoints) = 2

(* C3: after analyze_nets, a net has needs_resolution exactly when it  *)
(* has at least two endpoints.                                         *)
C3_NeedsResolutionIffTwoEndpoints ==
  Classified =>
    \A i \in 1..Len(g_nets) :
      g_nets[i].needs_resolution <=> (Len(g_nets[i].endpoints) >= 2)

C3_Witness ==
  /\ pc = "count"
  /\ \E i \in 1..Len(g_nets), j \in 1..Len(g_nets) :
       /\ Len(g_nets[i].endpoints) >= 2 /\ g_nets[i].needs_resolution
       /\ Len(g_nets[j].endpoints) = 1 /\ ~g_nets[j].needs_resolution

(* the root region is named top and declares w_driver and w_others,    *)
(* both of length 4                                                    *)
DeclaresSuffixPair ==
  /\ design.root_ok
  /\ StrLower(design.regions[1].name) = <<"t","o","p">>
  /\ \E a \in 1..Len(design.regions[1].signals),
        b \in 1..Len(design.regions[1].signals) :
       /\ design.regions[1].signals[a] = Signal(<<"w","_","d","r","i","v","e","r">>, 4)
       /\ design.regions[1].signals[b] = Signal(<<"w","_","o","t","h","e","r","s">>, 4)

(* C4: suffix-pairing completeness.  With w_driver and w_others (both  *)
(* of length 4) declared in region .top, the registry holds after the  *)
(* walk and the classification exactly one net named .top.w, and that   *)
(* net has needs_resolution true.                                      *)
C4_SuffixPairingCompleteness ==
  (pc = "count" /\ DeclaresSuffixPair) =>
    /\ Cardinality(NetsNamed(<<".","t","o","p",".","w">>)) = 1
    /\ \A i \in NetsNamed(<<".","t","o","p",".","w">>) : g_nets[i].needs_resolution

(* ------------------------------------------------------------------ *)
(* Properties of the reconciliation of the generator's answer          *)
(* ------------------------------------------------------------------ *)

(* entry k of file_dict is a (file name, text) pair *)
IsArtifact(k) == file_dict[k].fname # NULLSTR /\ file_dict[k].vhdl # NULLSTR

(* the entries of file_dict the loop has been through *)
Processed == {k \in 1..Len(trace) : IsArtifact(k)}

Outcomes(o) == {k \in Processed : trace[k].outcome = o}

(* the text up to its first newline *)
LeadingLine(text) ==
  IF strchr(text, "\n") = 0 THEN text ELSE Take(text, strchr(text, "\n") - 1)

IsPrefix(a, b) == Len(a) <= Len(b) /\ Take(b, Len(a)) = a

(* the existing file could be read, is not empty, and begins with the  *)
(* leading line of the new text                                        *)
LeadingLineHit(k) ==
  LET old == disk_at_start[file_dict[k].fname]
  IN  /\ trace[k].readable
      /\ old # ABSENT
      /\ old # <<>>
      /\ LeadingLine(old) = LeadingLine(file_dict[k].vhdl)

(* C1 as claimed: a file is left untouched and counted as cached iff   *)
(* its leading line equals that of the new text, and in every other    *)
(* case it is overwritten with the new text and counted as written.     *)
C1_CachedIffLeadingLineElseWritten ==
  /\ \A k \in Processed :
       LET f == file_dict[k].fname
       IN  IF LeadingLineHit(k)
             THEN trace[k].outcome = "cached" /\ disk[f] = disk_at_start[f]
             ELSE trace[k].outcome = "written" /\ disk[f] = file_dict[k].vhdl
  /\ cached = Cardinality(Outcomes("cached"))
  /\ written = Cardinality(Outcomes("written"))

(* C1 (amended): a file is left untouched and counted as cached iff it  *)
(* could be read and its leading line equals that of the new text.      *)
(* Otherwise the file is opened for writing: if that fails the file is *)
(* left as it was and counted as an error only; if it works the file   *)
(* is counted as written and holds the new text, or a prefix of it when *)
(* the write was cut short.                                            *)
C1_PerFileCache ==
  /\ \A k \in Processed :
       LET f == file_dict[k].fname
       IN  IF LeadingLineHit(k)
             THEN trace[k].outcome = "cached" /\ disk[f] = disk_at_start[f]
           ELSE IF trace[k].writable
             THEN /\ trace[k].outcome = "written"
                  /\ IsPrefix(disk[f], file_dict[k].vhdl)
             ELSE trace[k].outcome = "error" /\ disk[f] = disk_at_start[f]
  /\ cached = Cardinality(Outcomes("cached"))
  /\ written = Cardinality(Outcomes("written"))
  /\ errors >= Cardinality(Outcomes("error"))

(* two files of one answer: one recognised as cached, the other with a *)
(* differing leading line overwritten                                  *)
C1_Witness ==
  \E k \in Processed, m \in Processed :
    /\ trace[k].outcome = "cached"
    /\ disk[file_dict[k].fname] # file_dict[k].vhdl
    /\ trace[m].outcome = "written"
    /\ disk_at_start[file_dict[m].fname] # ABSENT
    /\ disk[file_dict[m].fname] = file_dict[m].vhdl
    /\ cached = 1 /\ written = 1

(* C5: idempotent normalization.  vhpi_to_ename applied to its own     *)
(* result gives that result again.                                     *)
C5_IdempotentNormalization ==
  Len(ename_hist) = 3 => ename_hist[3] = ename_hist[2]

(* C6: all-or-nothing writes.  Every file of the store holds its whole *)
(* previous content or the whole new text, and a file is counted as    *)
(* written only when the whole text is in it.                          *)
C6_AllOrNothingWrites ==
  \A k \in Processed :
    LET f == file_dict[k].fname
    IN  /\ disk[f] \in {disk_at_start[f], file_dict[k].vhdl}
        /\ trace[k].outcome = "written" => disk[f] = file_dict[k].vhdl

(* the generator was unavailable, raised, or answered with something   *)
(* that is not a mapping from names to texts                           *)
GeneratorFailed ==
  \/ Logged("Python not available, skipping resolver calls")
  \/ Logged("ERROR - Python exception in resolve_net")
  \/ Logged("WARNING - expected dict from Python")
  \/ \E k \in 1..Len(file_dict) : ~IsArtifact(k)

(* every net the report listed as needing resolution has its           *)
(* UNRESOLVED line                                                     *)
AllReportedUnresolved ==
  \A i \in 1..Len(log) :
    log[i].msg = "--- Net" =>
      \E j \in 1..Len(log) : log[j] = LogMsg("UNRESOLVED net", log[i].arg)

(* C7: a generator failure leaves the cache untouched: no file created *)
(* or modified, no validator run, and once the run has ended every net  *)
(* needing resolution reported as unresolved.                          *)
C7_GeneratorFailureLeavesCache ==
  GeneratorFailed =>
    /\ disk = disk_at_start
    /\ validated = <<>>
    /\ pc = "done" => AllReportedUnresolved

(* a file of the store as this run found it begins with the digest of  *)
(* the classified nets                                                 *)
StoredDigestHit ==
  /\ Classified
  /\ \E f \in FileNames :
       /\ disk_at_start[f] # ABSENT
       /\ disk_at_start[f] # <<>>
       /\ LeadingLine(disk_at_start[f]) = DigestLine(Fingerprint(g_nets))

ReachedGeneration ==
  \/ pc = "files"
  \/ pc = "done" /\ (Logged("ERROR - no VHDL generated")
                       \/ Logged("--rcmode=none: wrote, cached, error(s)")
                       \/ Logged("wrote, cached, compiled, errors"))

WriteFailed(k) ==
  /\ trace[k].outcome # "cached"
  /\ disk[file_dict[k].fname] # file_dict[k].vhdl

(* C9: partial-failure isolation.  An artifact whose write fails is     *)
(* counted as an error and as nothing else, and the loop goes on: when  *)
(* the run ends every entry has been processed and counted.            *)
C9_PartialFailureIsolation ==
  /\ \A k \in Processed : WriteFailed(k) => trace[k].outcome = "error"
  /\ cached = Cardinality(Outcomes("cached"))
  /\ written = Cardinality(Outcomes("written"))
  /\ (pc = "done" /\ file_dict # <<>>) => Len(trace) = Len(file_dict)

(* C10: the generator declines.  When resolve_net returns None the run *)
(* reports no generation error.                                        *)
C10_DeclineIsNotAnError ==
  Logged("Python returned None (no resolver generated)") =>
    /\ ~Logged("ERROR - no VHDL generated")
    /\ ~Logged("UNRESOLVED net")

(* ------------------------------------------------------------------ *)
(* Properties of the run as a whole                                    *)
(* ------------------------------------------------------------------ *)

(* the report of this run counted no net as requiring resolution *)
ReportedNoneNeeding ==
  \E i \in 1..Len(log) : log[i] = LogMsg("Nets requiring resolution", <<"0">>)

(* C11: nothing to generate.  In a run where no net has                *)
(* needs_resolution after the classification, the run never gets to    *)
(* Phase 3: the generator is not invoked, no file of the store is      *)
(* written, no validator is run, and the run ends right after the      *)
(* report with the "nothing to generate" line.                         *)
C11_NothingToGenerate ==
  /\ (Classified /\ \A i \in 1..Len(g_nets) : ~g_nets[i].needs_resolution)
       => pc = "count"
  /\ ReportedNoneNeeding =>
       /\ pc \in {"count", "done"}
       /\ gen_calls = 0
       /\ file_dict = <<>> /\ trace = <<>>
       /\ disk = disk_at_start
       /\ validated = <<>>
       /\ ~Logged("calling resolve_net")
       /\ ~Logged("ERROR - no VHDL generated")
       /\ pc = "done" =>
            /\ log[Len(log)] = LogMsg("no nets need resolution, nothing to generate", <<>>)
            /\ log[Len(log) - 1] = LogMsg("Nets requiring resolution", <<"0">>)

(* a run that discovered one net, of a single endpoint, has ended      *)
(* without a call of the generator                                     *)
C11_Witness ==
  /\ pc = "done"
  /\ g_python_ok
  /\ ReportedNoneNeeding
  /\ \E i \in 1..Len(log) : log[i] = LogMsg("Total nets discovered", <<"1">>)
  /\ gen_calls = 0
  /\ disk = disk_at_start

(* the nets of a registry that need resolution, with their endpoints *)
NeedingSet(nets) ==
  {nets[i] : i \in {k \in 1..Len(nets) : nets[k].needs_resolution}}

ValidationFailed(k) == trace[k].compile \in {"nospawn", "failed"}

(* C13: a validator failure does not roll back.  When the compilation  *)
(* of a just-written artifact fails or cannot be started, the file     *)
(* keeps what the write put in it (the whole new text when the write   *)
(* was complete), the failure adds one to the error count of the run,  *)
(* and the loop goes on to the remaining entries.                      *)
C13_ValidatorFailureKeepsArtifact ==
  /\ \A k \in Processed :
       ValidationFailed(k) =>
         /\ trace[k].outcome = "written"
         /\ trace[k].stored # ABSENT
         /\ disk[file_dict[k].fname] = trace[k].stored
  /\ errors = Cardinality(Outcomes("error"))
              + Cardinality({k \in Processed : ValidationFailed(k)})
  /\ written = Cardinality(Outcomes("written"))
  /\ (pc = "done" /\ file_dict # <<>>) => Len(trace) = Len(file_dict)

(* the compilation of the first artifact failed, its whole new text is *)
(* in the file, and the second artifact has been written after it      *)
C13_Witness ==
  \E k \in Processed, m \in Processed :
    /\ k < m
    /\ trace[k].compile = "failed"
    /\ disk[file_dict[k].fname] = file_dict[k].vhdl
    /\ disk[file_dict[k].fname] # disk_at_start[file_dict[k].fname]
    /\ trace[m].outcome = "written"
    /\ errors >= 1

(* entry k is an artifact that the previous run found to be a miss and *)
(* wrote in full, and this run could open the file for reading         *)
PersistedBefore(k) ==
  /\ DictEntry(file_dict[k].fname, file_dict[k].vhdl) \in prev_written
  /\ trace[k].readable

(* C14 as claimed: after a miss written in full, the file begins with  *)
(* the leading line of the artifact, so the next run, given the same   *)
(* artifact, leaves the file untouched and counts it as cached.        *)
C14_PersistedDigestAfterMiss ==
  \A k \in Processed :
    /\ (trace[k].outcome = "written" /\ trace[k].stored = file_dict[k].vhdl)
         => LeadingLine(disk[file_dict[k].fname]) = LeadingLine(file_dict[k].vhdl)
    /\ PersistedBefore(k) =>
         /\ trace[k].outcome = "cached"
         /\ disk[file_dict[k].fname] = disk_at_start[file_dict[k].fname]

(* C14 (amended): the same, for an artifact whose text is not empty.   *)
(* An artifact with an empty text leaves an empty file, in which the   *)
(* next run finds no line to compare, so it is written again and       *)
(* counted as written by every run.                                    *)
C14_PersistedDigestNonEmpty ==
  \A k \in Processed :
    /\ (trace[k].outcome = "written" /\ trace[k].stored = file_dict[k].vhdl)
         => LeadingLine(disk[file_dict[k].fname]) = LeadingLine(file_dict[k].vhdl)
    /\ PersistedBefore(k) =>
         IF file_dict[k].vhdl # <<>>
           THEN /\ trace[k].outcome = "cached"
                /\ disk[file_dict[k].fname] = disk_at_start[file_dict[k].fname]
           ELSE trace[k].outcome # "cached"

(* the second run is handed the artifact the first run wrote and       *)
(* counts it as cached                                                 *)
C14_Witness ==
  \E k \in Processed :
    /\ PersistedBefore(k)
    /\ file_dict[k].vhdl # <<>>
    /\ trace[k].outcome = "cached"
    /\ disk[file_dict[k].fname] = file_dict[k].vhdl
    /\ cached >= 1

(* ------------------------------------------------------------------ *)
(* Properties of the walk over malformed nodes                         *)
(* ------------------------------------------------------------------ *)

(* every endpoint of the registry, with the name of its net *)
AllEndpoints ==
  UNION { { [net |-> g_nets[i].net_name, ep |-> g_nets[i].endpoints[k]] :
              k \in 1..Len(g_nets[i].endpoints) } : i \in 1..Len(g_nets) }

Contains(str, c) == \E i \in 1..Len(str) : str[i] = c

(* the hierarchy has a region or an instance whose name is NULL *)
HasUnnamedNode ==
  \E r \in RegionIds :
    \/ design.regions[r].name = NULLSTR
    \/ \E i \in 1..Len(design.regions[r].insts) :
         design.regions[r].insts[i].name = NULLSTR

(* C15: malformed hierarchy node.  A region or instance whose name     *)
(* cannot be obtained is skipped with a logged warning: it gives no    *)
(* path segment, no net and no endpoint, so when the walk has returned  *)
(* no net name and no endpoint reference holds a segment that stands   *)
(* for a missing name, and a warning has been logged.                  *)
C15_MalformedNodeSkipped ==
  (pc = "analyze" /\ HasUnnamedNode) =>
    /\ \A e \in AllEndpoints :
         /\ ~Contains(e.net, "?")
         /\ ~Contains(e.ep.driver_ename, "?")
         /\ ~Contains(e.ep.receiver_ename, "?")
    /\ \E i \in 1..Len(log) : log[i].msg \notin
         {"WARNING: no port map for tran instance",
          "WARNING: port not in port map", "too many endpoints on net"}

(* the entries of a port map, split at the semicolons *)
RECURSIVE MapEntries(_)
MapEntries(portmap) ==
  IF portmap = <<>> THEN {}
  ELSE IF strchr(portmap, ";") = 0 THEN {portmap}
  ELSE {Take(portmap, strchr(portmap, ";") - 1)}
         \cup MapEntries(Drop(portmap, strchr(portmap, ";")))

(* the formals a port map names, lowercased *)
MapFormals(portmap) ==
  {StrLower(Take(e, strchr(e, "=") - 1)) :
     e \in {x \in MapEntries(portmap) : strchr(x, "=") # 0}}

(* <<region, instance>> of every instance of a tran-like entity *)
TranInstances ==
  { c \in UNION { { <<r, i>> : i \in 1..Len(design.regions[r].insts) } :
                  r \in RegionIds } :
      /\ design.regions[c[1]].insts[c[2]].entity # NULLSTR
      /\ is_tran_entity(design.regions[c[1]].insts[c[2]].entity) }

InstOf(c) == design.regions[c[1]].insts[c[2]]

InstEname(c) == StructPathOf(c[1]) \o <<".">> \o NameOrQuestion(InstOf(c).name)

(* the inout ports of an instance that have a name *)
InoutPorts(c) ==
  {k \in 1..Len(InstOf(c).ports) :
     InstOf(c).ports[k].mode = "inout" /\ InstOf(c).ports[k].name # NULLSTR}

PortDriver(c, k) ==
  InstEname(c) \o <<".">> \o StrLower(InstOf(c).ports[k].name)
    \o <<".","d","r","i","v","e","r">>

HasEndpoint(drv) == \E e \in AllEndpoints : e.ep.driver_ename = drv

(* C16: missing port-map data.  When the walk has returned, an inout   *)
(* port of a tran instance whose formal is not in the port map has no  *)
(* endpoint in any net, an instance without a port map has no endpoint *)
(* at all, each of the two has its warning in the log, and every other *)
(* inout port of every tran instance, in this region and in the ones   *)
(* walked later, has its endpoint.                                     *)
C16_MissingPortMapData ==
  pc = "analyze" =>
    \A c \in TranInstances :
      IF InstOf(c).portmap = NULLSTR
        THEN /\ \A e \in AllEndpoints :
                  ~IsPrefix(InstEname(c) \o <<".">>, e.ep.driver_ename)
             /\ Logged("WARNING: no port map for tran instance")
        ELSE \A k \in InoutPorts(c) :
               IF StrLower(InstOf(c).ports[k].name) \in MapFormals(InstOf(c).portmap)
                 THEN HasEndpoint(PortDriver(c, k))
                 ELSE /\ ~HasEndpoint(PortDriver(c, k))
                      /\ \E i \in 1..Len(log) :
                           log[i] = LogMsg("WARNING: port not in port map",
                                           InstOf(c).ports[k].name)

(* a design with an instance without a port map and a port its map     *)
(* lacks has been walked to the end, and an instance of the region     *)
(* walked last has its endpoint                                        *)
C16_Witness ==
  /\ pc = "analyze"
  /\ \E c \in TranInstances : InstOf(c).portmap = NULLSTR /\ InoutPorts(c) # {}
  /\ \E c \in TranInstances :
       /\ InstOf(c).portmap # NULLSTR
       /\ \E k \in InoutPorts(c) :
            /\ StrLower(InstOf(c).ports[k].name) \notin MapFormals(InstOf(c).portmap)
            /\ ~HasEndpoint(PortDriver(c, k))
       /\ \E k \in InoutPorts(c) : HasEndpoint(PortDriver(c, k))
  /\ \E c \in TranInstances : c[1] = Len(design.regions) /\ c[1] > 1
       /\ \E k \in InoutPorts(c) : HasEndpoint(PortDriver(c, k))
  /\ Logged("WARNING: no port map for tran instance")
  /\ Logged("WARNING: port not in port map")

(* C17: fatal root failure.  When the root of the hierarchy cannot be  *)
(* obtained, the run prints the error and ends at once: no region is   *)
(* walked, the registry stays empty, the generator is not invoked, and *)
(* no file and no directory of the store is created or modified.       *)
C17_FatalRootFailure ==
  (~design.root_ok /\ run >= 1) =>
    /\ pc = "done"
    /\ log = << LogMsg("ERROR - cannot get root instance", <<>>) >>
    /\ stack = <<>>
    /\ g_nets = <<>>
    /\ g_total_instances = 0
    /\ gen_calls = 0
    /\ file_dict = <<>> /\ trace = <<>>
    /\ validated = <<>>
    /\ disk = disk_at_start
    /\ dir_exists <=> \E f \in FileNames : disk[f] # ABSENT

(* the second run over a design without a root has ended, the stale    *)
(* file of the store still in place                                    *)
C17_Witness ==
  /\ ~design.root_ok
  /\ run = 2
  /\ pc = "done"
  /\ log = << LogMsg("ERROR - cannot get root instance", <<>>) >>
  /\ disk[FileA] = StaleText
  /\ g_nets = <<>>

(* ------------------------------------------------------------------ *)
(* Properties of the two path accumulators                             *)
(* ------------------------------------------------------------------ *)

(* number of dot-led segments of a path *)
Segments(path) == Cardinality({i \in 1..Len(path) : path[i] = "."})

IsComponent(r) ==
  design.regions[r].kind \in {"vhpiCompInstStmtK", "vhpiRootInstK"}

(* C18: signal-scope path rule.  During the walk the structural path   *)
(* of an activation has one segment per level; the signal-scope path   *)
(* handed to a child is the child's structural path when the child is  *)
(* a component instance or root instance and the parent's signal-scope *)
(* path when it is a generate or block region.  Hence, when the walk   *)
(* has returned, the net of a port-map actual found at any depth is    *)
(* named <path of the nearest enclosing component instance>.<actual>.  *)
C18_SignalScopePathRule ==
  /\ pc = "walk" =>
       \A n \in 1..Len(stack) :
         /\ Segments(stack[n].path) = n
         /\ stack[n].path = StructPathOf(stack[n].region)
         /\ stack[n].sig = SignalScopeOf(stack[n].region)
         /\ n = 1 => stack[n].sig = stack[n].path
         /\ n > 1 =>
              /\ stack[n].path =
                   stack[n-1].path \o <<".">>
                     \o NameOrQuestion(design.regions[stack[n].region].name)
              /\ stack[n].sig = IF IsComponent(stack[n].region)
                                  THEN stack[n].path
                                  ELSE stack[n-1].sig
  /\ pc = "analyze" =>
       {g_nets[i].net_name : i \in 1..Len(g_nets)}
         = {ConnNetName(c) : c \in Connections}

(* the walk is in a generate region under a component instance: its    *)
(* actual is named relative to the component, while the actual of the  *)
(* block nested in a generate of the root, walked before, is named     *)
(* relative to the root                                                *)
C18_Witness ==
  /\ pc = "walk"
  /\ Len(stack) = 3
  /\ design.regions[stack[2].region].kind = "vhpiCompInstStmtK"
  /\ ~IsComponent(stack[3].region)
  /\ stack[3].sig = stack[2].path
  /\ stack[3].sig # stack[1].sig
  /\ stack[3].path # stack[3].sig
  /\ \E e \in AllEndpoints :
       /\ IsPrefix(stack[3].sig \o <<".">>, e.net)
       /\ Segments(e.net) = 3
       /\ IsPrefix(stack[3].path \o <<".">>, e.ep.driver_ename)
  /\ \E e \in AllEndpoints :
       /\ Segments(e.net) = 2
       /\ Segments(e.ep.driver_ename) = 6

(* ------------------------------------------------------------------ *)
(* Properties of the registry                                          *)
(* ------------------------------------------------------------------ *)

FlaggedNames(nets) ==
  {nets[i].net_name : i \in {k \in 1..Len(nets) : nets[k].needs_resolution}}

(* C19: needs_resolution is set only after discovery.  While the walk  *)
(* is in progress every net of the registry has needs_resolution       *)
(* false; a net gets the flag only in the classification step, which   *)
(* is taken once the walk of the whole hierarchy has returned; and     *)
(* after the classification the nets keep their endpoints until the    *)
(* registry is freed.                                                  *)
C19_NeedsResolutionOnlyAfterDiscovery ==
  /\ [](pc = "walk" => \A i \in 1..Len(g_nets) : ~g_nets[i].needs_resolution)
  /\ [](pc = "analyze" => stack = <<>>)
  /\ [][ /\ ~(FlaggedNames(g_nets') \subseteq FlaggedNames(g_nets))
             => (pc = "analyze" /\ pc' = "count")
         /\ pc' = "count" => pc = "analyze"
         /\ pc' = "analyze" => (pc = "walk" /\ Len(stack) = 1)
         /\ Classified => (g_nets' = g_nets \/ g_nets' = <<>>) ]_vars

(* the walk is still in progress and a net already has two endpoints,  *)
(* its flag not yet set                                                *)
C19_Witness ==
  /\ pc = "walk"
  /\ Len(stack) >= 2
  /\ \E i \in 1..Len(g_nets) :
       /\ Len(g_nets[i].endpoints) >= 2
       /\ ~g_nets[i].needs_resolution

(* the two names are the same up to the case of their letters *)
CaseEqual(a, b) == StrLower(a) = StrLower(b)

NetNames(nets) == [i \in 1..Len(nets) |-> nets[i].net_name]

(* C20: net identity.  After any sequence of find_or_create_net and    *)
(* net_add_endpoint calls the registry holds no two nets whose names   *)
(* are equal up to letter case; a call of find_or_create_net with a    *)
(* name that differs from the name of a net of the registry in letter  *)
(* case only returns that net and creates nothing, and any other name  *)
(* gets a new net at the head of the list.                             *)
C20_NetIdentity ==
  /\ \A i \in 1..Len(g_nets), j \in 1..Len(g_nets) :
       i # j => ~CaseEqual(g_nets[i].net_name, g_nets[j].net_name)
  /\ last_find.name # NULLSTR =>
       IF \E i \in 1..Len(last_find.before) :
            CaseEqual(last_find.before[i], last_find.name)
         THEN /\ NetNames(g_nets) = last_find.before
              /\ last_find.idx \in 1..Len(g_nets)
              /\ CaseEqual(g_nets[last_find.idx].net_name, last_find.name)
         ELSE /\ NetNames(g_nets)
                   = <<last_find.name>> \o last_find.before
              /\ last_find.idx = 1

(* the latest call gave a name in another letter case than the one the *)
(* net was created with, and got that net, which has an endpoint, back *)
C20_Witness ==
  /\ last_find.name # NULLSTR
  /\ Len(g_nets) >= 2
  /\ Len(g_nets) = Len(last_find.before)
  /\ last_find.idx = 2
  /\ g_nets[2].net_name # last_find.name
  /\ CaseEqual(g_nets[2].net_name, last_find.name)
  /\ Len(g_nets[2].endpoints) >= 1

(* ------------------------------------------------------------------ *)
(* The order of the registry                                           *)
(* ------------------------------------------------------------------ *)

(* The regions in the order walk_hierarchy visits them, read off the   *)
(* design: a region, then each of its sub-regions with all that is     *)
(* below it.                                                           *)
RECURSIVE WalkOrder(_), WalkSubs(_, _)
WalkOrder(r) == <<r>> \o WalkSubs(r, 1)

WalkSubs(r, j) ==
  IF j > Len(design.regions[r].subs) THEN <<>>
  ELSE WalkOrder(design.regions[r].subs[j]) \o WalkSubs(r, j + 1)

WalkRank(r) == PosIn(WalkOrder(1), r)

(* the walk reaches port c before port d *)
ConnBefore(c, d) ==
  \/ WalkRank(c[1]) < WalkRank(d[1])
  \/ c[1] = d[1] /\ c[2] < d[2]
  \/ c[1] = d[1] /\ c[2] = d[2] /\ c[3] < d[3]

(* the port whose scan creates the net of this name *)
FirstConn(name) ==
  CHOOSE c \in Connections :
    /\ ConnNetName(c) = name
    /\ \A d \in Connections : ConnNetName(d) = name /\ d # c => ConnBefore(c, d)

(* the names of the sequence are those of nets of the design, each     *)
(* created during the walk before the ones that follow it              *)
InCreationOrder(names) ==
  /\ \A i \in 1..Len(names) : \E c \in Connections : ConnNetName(c) = names[i]
  /\ \A i \in 1..Len(names), j \in 1..Len(names) :
       i < j => ConnBefore(FirstConn(names[i]), FirstConn(names[j]))

ReportedNets ==
  LET lines == SelectSeq(log, LAMBDA l : l.msg = "--- Net")
  IN  [i \in 1..Len(lines) |-> lines[i].arg]

(* C21: the registry is insertion-ordered.  Once the walk has returned *)
(* every enumeration of the registry gives the nets in the order in    *)
(* which the walk created them: the list that analyze_nets classifies, *)
(* the nets of the report, and the nets of the request handed to the   *)
(* generator.                                                          *)
C21_InsertionOrdered ==
  /\ (pc = "analyze" \/ Classified) => InCreationOrder(NetNames(g_nets))
  /\ Classified => InCreationOrder(ReportedNets)
  /\ gen_calls > 0 => InCreationOrder(NetNames(gen_request))

(* ------------------------------------------------------------------ *)
(* The life of the registry                                            *)
(* ------------------------------------------------------------------ *)

(* start_of_sim has just been entered: nothing of the root scanned yet *)
RunStarts ==
  /\ pc = "walk"
  /\ Len(stack) = 1
  /\ stack[1].i = 0 /\ stack[1].j = 0

(* start_of_sim is not running: before the first callback or returned *)
Returned == pc \in {"idle", "done"}

(* C22: registry lifecycle.  A run starts with an empty registry and   *)
(* an instance counter of zero, and whenever start_of_sim has returned *)
(* (the root could not be had, no net needs resolution, the generator  *)
(* failed or declined, or the files were processed) the registry is    *)
(* empty and the instance counter is zero, so that the next run sees   *)
(* no net of this one.                                                 *)
C22_RegistryLifecycle ==
  /\ RunStarts => (g_nets = <<>> /\ g_total_instances = 0)
  /\ Returned => (g_nets = <<>> /\ g_total_instances = 0)

(* a second run that found nets needing resolution and processed the   *)
(* generator's files has returned                                      *)
C22_Witness ==
  /\ pc = "done"
  /\ run = 2
  /\ gen_calls = 1
  /\ Len(gen_request) >= 2
  /\ Len(trace) >= 1
  /\ \E i \in 1..Len(log) :
       /\ log[i].msg = "Total instances scanned"
       /\ log[i].arg # Decimal(0)
  /\ g_nets = <<>>
  /\ g_total_instances = 0

(* ------------------------------------------------------------------ *)
(* The room of a net                                                   *)
(* ------------------------------------------------------------------ *)

(* every connected port with the name of its net, the driver name of   *)
(* its endpoint and its place in the walk                              *)
ConnTable ==
  { [net  |-> ConnNetName(c),
     drv  |-> ConnDriver(c),
     inst |-> <<c[1], c[2]>>,
     at   |-> <<WalkRank(c[1]), c[2], c[3]>>] : c \in Connections }

(* place a of the walk comes before place b *)
PlaceBefore(a, b) ==
  \/ a[1] < b[1]
  \/ a[1] = b[1] /\ a[2] < b[2]
  \/ a[1] = b[1] /\ a[2] = b[2] /\ a[3] < b[3]

(* the ports of the table on the net of port t that the walk reaches   *)
(* before t                                                            *)
EarlierOnNet(tab, t) ==
  Cardinality({u \in tab : u.net = t.net /\ PlaceBefore(u.at, t.at)})

(* the ports of the table that come to a net which has MAX_ENDPOINTS   *)
(* endpoints                                                           *)
Overflowing(tab) == {t \in tab : EarlierOnNet(tab, t) >= MAX_ENDPOINTS}

TooManyLines == SelectSeq(log, LAMBDA l : l.msg = "too many endpoints on net")

(* C23: endpoint bound.  In every state every net has between 0 and    *)
(* MAX_ENDPOINTS endpoints.  When the walk has returned, a port that   *)
(* came to a net with fewer than MAX_ENDPOINTS endpoints is the        *)
(* endpoint of the net at the next free position, and a port that came *)
(* to a full net is an endpoint of no net and has its "too many        *)
(* endpoints" line: the full net kept its endpoints and its count, and *)
(* the ports after the rejected one, of the same instance and of later *)
(* ones, were scanned as usual.                                        *)
C23_EndpointBound ==
  /\ \A i \in 1..Len(g_nets) : Len(g_nets[i].endpoints) \in 0..MAX_ENDPOINTS
  /\ pc = "analyze" =>
       LET tab  == ConnTable
           over == Overflowing(tab)
           drvs == {e.ep.driver_ename : e \in AllEndpoints}
       IN  /\ \A t \in tab :
                IF t \in over
                  THEN t.drv \notin drvs
                  ELSE \E i \in 1..Len(g_nets) :
                         LET k == EarlierOnNet(tab, t) + 1
                         IN  /\ g_nets[i].net_name = t.net
                             /\ k <= Len(g_nets[i].endpoints)
                             /\ g_nets[i].endpoints[k].driver_ename = t.drv
           /\ Len(TooManyLines) = Cardinality(over)
           /\ \A l \in 1..Len(TooManyLines) :
                \E t \in over : TooManyLines[l].arg = t.net

(* a net is full, two ports were turned away from it, and the other    *)
(* port of each of their instances is an endpoint of a second net      *)
C23_Witness ==
  /\ pc = "analyze"
  /\ Len(TooManyLines) = 2
  /\ LET tab  == ConnTable
         over == Overflowing(tab)
     IN  \E i \in 1..Len(g_nets), j \in 1..Len(g_nets) :
           /\ Len(g_nets[i].endpoints) = MAX_ENDPOINTS
           /\ Len(g_nets[j].endpoints) = 2
           /\ \E t \in over, u \in over :
                /\ t # u
                /\ t.net = g_nets[i].net_name /\ u.net = g_nets[i].net_name
                /\ \E t2 \in tab, u2 \in tab :
                     /\ t2.inst = t.inst /\ PlaceBefore(t.at, t2.at)
                     /\ u2.inst = u.inst /\ PlaceBefore(u.at, u2.at)
                     /\ {g_nets[j].endpoints[1].driver_ename,
                         g_nets[j].endpoints[2].driver_ename} = {t2.drv, u2.drv}

(* ------------------------------------------------------------------ *)
(* The compile step                                                    *)
(* ------------------------------------------------------------------ *)

(* the compile step was taken for entry k: popen was called with the   *)
(* nvc command for its file                                            *)
ValidatorInvoked(k) == trace[k].compile # "none"

(* the compiler was started on the file of entry k in this run *)
Spawned(k) == \E i \in 1..Len(validated) : validated[i] = file_dict[k].fname

(* C24: validation follows writes only.  In a run the compile step is  *)
(* taken for an artifact exactly when the artifact was written in this *)
(* run and the mode is not "none"; an artifact found to be a cache hit *)
(* is not compiled in that run, whatever the previous run's compiler   *)
(* said about its file; every artifact gone through is counted once,   *)
(* as cached, as written or as a write failure; and compiled never     *)
(* exceeds written.                                                    *)
C24_ValidationFollowsWrites ==
  /\ \A k \in Processed :
       /\ ValidatorInvoked(k) <=> (trace[k].outcome = "written" /\ ~skip_compile)
       /\ Spawned(k) => ValidatorInvoked(k)
       /\ trace[k].outcome = "cached" => (~ValidatorInvoked(k) /\ ~Spawned(k))
  /\ \A i \in 1..Len(validated) :
       \E k \in Processed : file_dict[k].fname = validated[i]
  /\ cached = Cardinality(Outcomes("cached"))
  /\ cached + written + Cardinality(Outcomes("error")) = Cardinality(Processed)
  /\ compiled = Cardinality({k \in Processed : trace[k].compile = "ok"})
  /\ compiled <= written

(* the previous run wrote an artifact in full and its compilation      *)
(* failed; this run, in a mode that compiles, got the same artifact,   *)
(* found it cached and did not compile it, and wrote and compiled      *)
(* another one                                                         *)
C24_Witness ==
  /\ ~skip_compile
  /\ run = 2
  /\ \E k \in Processed, m \in Processed :
       /\ PersistedBefore(k)
       /\ file_dict[k].fname \in prev_failed
       /\ trace[k].outcome = "cached"
       /\ ~ValidatorInvoked(k)
       /\ ~Spawned(k)
       /\ trace[m].outcome = "written"
       /\ Spawned(m)
  /\ cached = 1 /\ written = 1

====
